---------------------------- MODULE Spec2Model ----------------------------
(***************************************************************************)
(* A model of manim/mobject/geometry.py: the Tiling offset arithmetic,     *)
(* the EdgeVertexGraph constructor, the ArcBetweenPoints radius handling,  *)
(* Polygon.round_corners and the tip handling of TipableVMobject.          *)
(*                                                                         *)
(* Each component has its own variables, initial states and actions; a     *)
(* component that a specification does not exercise stays idle.            *)
(***************************************************************************)
EXTENDS Integers, Sequences, FiniteSets, TLC

VARIABLES
    tiling,     \* the Tiling under construction (Tiling.__init__ / tile_init_loop)
    graph,      \* the EdgeVertexGraph under construction (EdgeVertexGraph.__init__)
    arc,        \* the ArcBetweenPoints under construction (ArcBetweenPoints.__init__)
    poly,       \* the Polygon whose corners are rounded (Polygon.round_corners)
    path        \* a TipableVMobject, its tips and the calls made on it

vars == <<tiling, graph, arc, poly, path>>

(***************************************************************************)
(* Bounds of the model.                                                    *)
(***************************************************************************)
MaxCoord == 3       \* tile coordinates lie in -MaxCoord .. MaxCoord
MaxRules == 3       \* an axis has at most MaxRules offset rules
MaxVertex == 2      \* a graph has the vertices 0 .. MaxVertex
MaxAdj == 2         \* the adjacency list under study has at most MaxAdj entries
MaxGrid == 2        \* the endpoints of an arc lie on the grid (0 .. MaxGrid)^2
MaxRadius == 3      \* the radius handed to ArcBetweenPoints lies in -MaxRadius .. MaxRadius
MaxSides == 4       \* a polygon has 3 .. MaxSides vertices
MaxCalls == 3       \* at most MaxCalls calls are made on a path

(***************************************************************************)
(* Python helpers.                                                         *)
(***************************************************************************)
\* len(range(start, stop, step)) for step # 0
PyRangeLen(start, stop, step) ==
    IF step > 0
    THEN IF start < stop THEN (stop - start + step - 1) \div step ELSE 0
    ELSE IF start > stop THEN (start - stop + (-step) - 1) \div (-step) ELSE 0

\* list(range(start, stop, step)) as a sequence
PyRange(start, stop, step) ==
    [n \in 1..PyRangeLen(start, stop, step) |-> start + (n - 1) * step]

\* l[idx] for a Python list held as a 1-based sequence; idx may be negative
PyIndexOk(l, idx) == idx >= -Len(l) /\ idx < Len(l)
PyGet(l, idx) == IF idx < 0 THEN l[Len(l) + idx + 1] ELSE l[idx + 1]

Idle == [pc |-> "idle"]

(***************************************************************************)
(* Exact arithmetic.  A coordinate is a rational <<numerator, denominator>>*)
(* in lowest terms with a positive denominator.                            *)
(***************************************************************************)
Abs(n) == IF n < 0 THEN -n ELSE n

RECURSIVE GCD(_, _)
GCD(a, b) == IF b = 0 THEN a ELSE GCD(b, a % b)

RNorm(n, d) ==
    LET sn == IF d < 0 THEN -n ELSE n
        sd == IF d < 0 THEN -d ELSE d
        g == GCD(Abs(sn), sd)
    IN  <<sn \div g, sd \div g>>

R(n) == <<n, 1>>
RAdd(x, y) == RNorm(x[1] * y[2] + y[1] * x[2], x[2] * y[2])
RSub(x, y) == RNorm(x[1] * y[2] - y[1] * x[2], x[2] * y[2])
RMul(x, y) == RNorm(x[1] * y[1], x[2] * y[2])
RDiv(x, y) == RNorm(x[1] * y[2], x[2] * y[1])
RLess(x, y) == x[1] * y[2] < y[1] * x[2]
RAbs(x) == <<Abs(x[1]), x[2]>>

(***************************************************************************)
(* Tiling.  A rule is the flat Python list [op, value, op, value, ...];    *)
(* op is "shift" (value: a vector <<dx, dy>>) or "rotate" (value: an       *)
(* angle, in whole units).  A tile records its accumulated translation,    *)
(* its accumulated rotation and the calls made on it.                      *)
(***************************************************************************)
\* offset[r][0 + j*2](tile, magnitude * np.array(offset[r][1 + j*2]))
ApplyOp(tile, axis, rule, r, j, magnitude) ==
    LET op  == PyGet(rule, 0 + j * 2)
        val == PyGet(rule, 1 + j * 2)
        call == <<axis, r, j, magnitude>>
    IN  IF op = "shift"
        THEN [tile EXCEPT !.pos = <<@[1] + magnitude * val[1], @[2] + magnitude * val[2]>>,
                          !.calls = Append(@, call)]
        ELSE [tile EXCEPT !.angle = @ + magnitude * val,
                          !.calls = Append(@, call)]

\* a slip in the mirrored branch: the sign of the magnitude is not flipped
NegMagnitudeUnsigned(i, position, offsets_nr) == PyRangeLen(-i, position, -offsets_nr)

\* a slip in the forward branch: the range includes the target position
PosMagnitudeInclusive(i, position, offsets_nr) == PyRangeLen(i, position + 1, offsets_nr)

\* a slip in the forward branch: the range leaves out its start value 0
PosMagnitudeStrictlyBetween(i, position, offsets_nr) ==
    PyRangeLen(IF i = 0 THEN offsets_nr ELSE i, position, offsets_nr)

\* the magnitude with which loop index i applies its rule
NegMagnitude(i, position, offsets_nr) == PyRangeLen(-i, position, -offsets_nr) * (-1)
PosMagnitude(i, position, offsets_nr) == PyRangeLen(i, position, offsets_nr)

\* the loop body of transform_tile for one (i, j); st is [tile, err]
TransformStep(st, axis, position, offset, i, j) ==
    LET offsets_nr == Len(offset)
    IN  IF position < 0
        THEN LET magnitude == NegMagnitude(i, position, offsets_nr)
                 rule == PyGet(offset, -1 - i)
                 r == offsets_nr - 1 - i
             IN  IF PyIndexOk(rule, 0 + j * 2) /\ PyIndexOk(rule, 1 + j * 2)
                 THEN [st EXCEPT !.tile = ApplyOp(@, axis, rule, r, j, magnitude)]
                 ELSE [st EXCEPT !.err = "IndexError"]
        ELSE LET magnitude == PosMagnitude(i, position, offsets_nr)
                 rule == PyGet(offset, i)
             IN  [st EXCEPT !.tile = ApplyOp(@, axis, rule, i, j, magnitude)]

\* for j in range(int(len(offset[i]) / 2)), from j on
RECURSIVE TransformInner(_, _, _, _, _, _)
TransformInner(st, axis, position, offset, i, j) ==
    IF st.err # "" \/ j >= Len(PyGet(offset, i)) \div 2
    THEN st
    ELSE TransformInner(TransformStep(st, axis, position, offset, i, j),
                        axis, position, offset, i, j + 1)

\* for i in range(offsets_nr), from i on
RECURSIVE TransformOuter(_, _, _, _, _)
TransformOuter(st, axis, position, offset, i) ==
    IF st.err # "" \/ i >= Len(offset)
    THEN st
    ELSE TransformOuter(TransformInner(st, axis, position, offset, i, 0),
                        axis, position, offset, i + 1)

transform_tile(st, axis, position, offset) ==
    TransformOuter(st, axis, position, offset, 0)

apply_transforms(x, y, tile) ==
    LET afterX == transform_tile([tile |-> tile, err |-> ""], "x", x, tiling.x_offset)
    IN  IF afterX.err # "" THEN afterX
        ELSE transform_tile(afterX, "y", y, tiling.y_offset)

(***************************************************************************)
(* The inputs of a Tiling: rule lists and ranges.                          *)
(***************************************************************************)
XShift == <<2, 1>>
YShift == <<0, 3>>

XRules == { <<"shift", XShift>>, <<"rotate", 1>>, <<"shift", XShift, "rotate", 1>> }

RuleLists(rules) == UNION { [1..k -> rules] : k \in 1..MaxRules }

YOffsets == { << <<"shift", YShift>> >>,
              << <<"rotate", 1>>, <<"shift", YShift>> >> }

\* the range objects handed to Tiling: [start, stop, step]
XRangeArgs == { [start |-> a, stop |-> b, step |-> s] :
                    a \in {-MaxCoord, -1, 0}, b \in {0, MaxCoord}, s \in {1, 2} }
                \cup { [start |-> -1, stop |-> 1, step |-> 1] }
YRangeArgs == { [start |-> -1, stop |-> 1, step |-> 1],
                [start |-> 0, stop |-> 0, step |-> 1] }

\* a slip: the range is taken as given, without the added step
ExtendRangeAsGiven(r) == PyRange(r.start, r.stop, r.step)

\* range(r.start, r.stop + r.step, r.step)
ExtendRange(r) == PyRange(r.start, r.stop + r.step, r.step)

\* the prototype tile: object 0, untransformed
Prototype == [id |-> 0, pos |-> <<0, 0>>, angle |-> 0, calls |-> <<>>]

\* tile_prototype.deepcopy(): a new object with the prototype's state
DeepCopy(tile, newId) == [tile EXCEPT !.id = newId]

\* Tiling.__init__ up to the call of tile_init_loop
InitTiling ==
    /\ \E xo \in RuleLists(XRules), yo \in YOffsets,
          xr \in XRangeArgs, yr \in YRangeArgs :
            tiling = [pc |-> IF ExtendRange(xr) = <<>> \/ ExtendRange(yr) = <<>>
                             THEN "done" ELSE "loop",
                      x_offset |-> xo, y_offset |-> yo,
                      x_range |-> ExtendRange(xr), y_range |-> ExtendRange(yr),
                      x_arg |-> xr, y_arg |-> yr,
                      tile_dictionary |-> <<>>,
                      submobjects |-> <<>>,
                      k |-> 0]
    /\ graph = Idle
    /\ arc = Idle
    /\ poly = Idle
    /\ path = Idle

\* d[x][y] = v for a two-level Python dict held as a function of functions
DictSet(d, x, y, v) ==
    LET inner == IF x \in DOMAIN d THEN d[x] ELSE <<>>
        inner2 == [yy \in (DOMAIN inner) \cup {y} |-> IF yy = y THEN v ELSE inner[yy]]
    IN  [xx \in (DOMAIN d) \cup {x} |-> IF xx = x THEN inner2 ELSE d[xx]]

\* one iteration of the inner loop of tile_init_loop
TileInitStep ==
    /\ tiling.pc = "loop"
    /\ LET ny == Len(tiling.y_range)
           total == Len(tiling.x_range) * ny
           x == tiling.x_range[(tiling.k \div ny) + 1]
           y == tiling.y_range[(tiling.k % ny) + 1]
           copy == DeepCopy(Prototype, tiling.k + 1)
           res == apply_transforms(x, y, copy)
       IN  IF res.err # ""
           THEN tiling' = [tiling EXCEPT !.pc = "error"]
           ELSE tiling' = [tiling EXCEPT
                    !.submobjects = Append(@, res.tile),
                    !.tile_dictionary = DictSet(@, x, y, res.tile),
                    !.k = @ + 1,
                    !.pc = IF tiling.k + 1 = total THEN "done" ELSE "loop"]
    /\ UNCHANGED <<graph, arc, poly, path>>

NextTiling == TileInitStep

SpecTiling == InitTiling /\ [][NextTiling]_vars

(***************************************************************************)
(* Observations on a built tile.                                           *)
(***************************************************************************)
\* the tiles of the dictionary, as <<x, y>> keys
TileKeys == { <<x, y>> \in (DOMAIN tiling.tile_dictionary) \X (-MaxCoord - 2 .. MaxCoord + 2) :
                y \in DOMAIN tiling.tile_dictionary[x] }
TileAt(x, y) == tiling.tile_dictionary[x][y]

AxisOffset(axis) == IF axis = "x" THEN tiling.x_offset ELSE tiling.y_offset

\* the translation the calls of one axis gave a tile
RECURSIVE AxisShiftFrom(_, _, _)
AxisShiftFrom(calls, axis, n) ==
    IF n > Len(calls) THEN <<0, 0>>
    ELSE LET c == calls[n]
             rest == AxisShiftFrom(calls, axis, n + 1)
             rule == PyGet(AxisOffset(axis), c[2])
         IN  IF c[1] = axis /\ PyGet(rule, 2 * c[3]) = "shift"
             THEN LET v == PyGet(rule, 2 * c[3] + 1)
                  IN  <<rest[1] + c[4] * v[1], rest[2] + c[4] * v[2]>>
             ELSE rest
AxisShift(tile, axis) == AxisShiftFrom(tile.calls, axis, 1)

\* the magnitudes with which rule r of an axis was applied to a tile
RuleMags(tile, axis, r) ==
    { tile.calls[n][4] : n \in { m \in 1..Len(tile.calls) :
                                   tile.calls[m][1] = axis /\ tile.calls[m][2] = r } }

\* every rule of the list is the single pair (shift, v)
ShiftOnly(offset, v) == \A n \in 1..Len(offset) : offset[n] = <<"shift", v>>

Scaled(n, v) == <<n * v[1], n * v[2]>>

(* C3: when every rule of an axis is the single pair (shift, v), the tile  *)
(* at coordinate n of that axis is translated along it by exactly n*v, for *)
(* positive, zero and negative n; with both axes shift-only the tile sits  *)
(* at x*vx + y*vy.                                                         *)
C3_ShiftOnlyTilesMoveByCoordinate ==
    tiling.pc # "idle" =>
        \A key \in TileKeys :
            LET t == TileAt(key[1], key[2])
            IN  /\ ShiftOnly(tiling.x_offset, XShift)
                     => AxisShift(t, "x") = Scaled(key[1], XShift)
                /\ ShiftOnly(tiling.y_offset, YShift)
                     => AxisShift(t, "y") = Scaled(key[2], YShift)
                /\ ShiftOnly(tiling.x_offset, XShift) /\ ShiftOnly(tiling.y_offset, YShift)
                     => t.pos = <<key[1] * XShift[1] + key[2] * YShift[1],
                                  key[1] * XShift[2] + key[2] * YShift[2]>>

\* a finished tiling of three shift-only rules with tiles at -MaxCoord, 0 and MaxCoord
C3_Witness ==
    /\ tiling.pc = "done"
    /\ Len(tiling.x_offset) = 3
    /\ ShiftOnly(tiling.x_offset, XShift)
    /\ {<<-MaxCoord, 0>>, <<0, 0>>, <<MaxCoord, 0>>} \subseteq TileKeys
    /\ TileAt(-MaxCoord, 0).pos = Scaled(-MaxCoord, XShift)
    /\ TileAt(0, 0).pos = <<0, 0>>
    /\ TileAt(MaxCoord, 0).pos = Scaled(MaxCoord, XShift)

\* rule r of an axis was applied to the tile with magnitude m and no other
HasMag(tile, axis, r, m) == RuleMags(tile, axis, r) = {m}

\* the tiles at p and p+1 of an axis differ in rule p mod k alone, by one
StepsCyclically(tp, tq, axis, p) ==
    LET k == Len(AxisOffset(axis))
    IN  \A r \in 0..(k - 1) :
            \E m \in (-MaxCoord - 2)..(MaxCoord + 2) :
                /\ HasMag(tp, axis, r, m)
                /\ HasMag(tq, axis, r, m + (IF r = p % k THEN 1 ELSE 0))

(* C10: the rules of an axis are applied cyclically.  At coordinate 0      *)
(* every rule has magnitude 0, and from coordinate p to p+1 (p negative or *)
(* not) exactly the rule with index p mod k gains 1.  For the two rules    *)
(* [[shift, v], [rotate, a]] the tiles at 1, 2, 3 have the magnitudes      *)
(* (1,0), (1,1), (2,1).                                                    *)
C10_RulesAppliedCyclically ==
    tiling.pc # "idle" =>
        \A key \in TileKeys :
            LET x == key[1]
                y == key[2]
                t == TileAt(x, y)
            IN  /\ x = 0 => \A r \in 0..(Len(tiling.x_offset) - 1) : HasMag(t, "x", r, 0)
                /\ y = 0 => \A r \in 0..(Len(tiling.y_offset) - 1) : HasMag(t, "y", r, 0)
                /\ <<x + 1, y>> \in TileKeys
                     => StepsCyclically(t, TileAt(x + 1, y), "x", x)
                /\ <<x, y + 1>> \in TileKeys
                     => StepsCyclically(t, TileAt(x, y + 1), "y", y)
                /\ tiling.x_offset = << <<"shift", XShift>>, <<"rotate", 1>> >> /\ x \in 1..3
                     => /\ HasMag(t, "x", 0, IF x = 3 THEN 2 ELSE 1)
                        /\ HasMag(t, "x", 1, IF x = 1 THEN 0 ELSE 1)

\* a finished tiling with the two rules of the example and tiles from -MaxCoord to 3
C10_Witness ==
    /\ tiling.pc = "done"
    /\ tiling.x_offset = << <<"shift", XShift>>, <<"rotate", 1>> >>
    /\ \A x \in (-MaxCoord)..3 : <<x, 0>> \in TileKeys
    /\ TileAt(3, 0).angle = 1
    /\ HasMag(TileAt(-MaxCoord, 0), "x", (-MaxCoord) % 2, -((MaxCoord + 1) \div 2))

(***************************************************************************)
(* EdgeVertexGraph.  Python values are tagged with their type: an int      *)
(* [t |-> "int", n |-> n], a str [t |-> "str"], a dict                     *)
(* [t |-> "dict", d |-> d] (d a function from keys to values) and a list   *)
(* [t |-> "list", items |-> <<...>>].  The graph dictionary is the         *)
(* sequence of its items <<key, attributes>> in insertion order;           *)
(* attributes is [pos, adj, cfg].                                          *)
(***************************************************************************)
PyInt(n) == [t |-> "int", n |-> n]
PyStr == [t |-> "str"]
PyDict(d) == [t |-> "dict", d |-> d]
PyList(items) == [t |-> "list", items |-> items]

IsInstance(val, type) == val.t = type

EmptyDict == [k \in {} |-> 0]

\* a slip: {**b, **a}, the first dictionary wins
MergeFirstWins(a, b) == [k \in (DOMAIN a) \cup (DOMAIN b) |-> IF k \in DOMAIN a THEN a[k] ELSE b[k]]

\* {**a, **b}
Merge(a, b) == [k \in (DOMAIN a) \cup (DOMAIN b) |-> IF k \in DOMAIN b THEN b[k] ELSE a[k]]

VertexIds == 0..MaxVertex

\* where the docstring's example puts its vertices: distinct points
Position(n) == <<n, n * n>>

\* the configuration dictionaries of the example
VertexConfig == [radius |-> 2, fill_opacity |-> 1]
\* vertex 0 also sets a key that vertex_config sets
OwnConfig(n) == IF n = 0 THEN [color |-> 1, radius |-> 3] ELSE [color |-> n + 1]
EdgeConfigs == { EmptyDict, [stroke_width |-> 5, angle |-> 1] }
Override == [angle |-> 2]

\* adjacency entries that validate and build: an id, or [id, override-config]
GoodEntries == { PyInt(n) : n \in VertexIds }
                 \cup { PyList(<<PyInt(n), PyDict(Override)>>) : n \in VertexIds }

\* adjacency entries that are neither
BadEntries == { PyStr,
                PyList(<<>>),
                PyList(<<PyInt(MaxVertex)>>),
                PyList(<<PyStr, PyDict(Override)>>),
                PyList(<<PyInt(MaxVertex), PyStr>>) }

AdjLists(entries) == UNION { [1..n -> entries] : n \in 0..MaxAdj }

\* every other vertex, as plain ids in ascending order
RECURSIVE OthersFrom(_, _)
OthersFrom(u, n) ==
    IF n > MaxVertex THEN <<>>
    ELSE IF n = u THEN OthersFrom(u, n + 1)
    ELSE <<PyInt(n)>> \o OthersFrom(u, n + 1)
AllOthers(u) == OthersFrom(u, 0)

\* graphs: one vertex (the focus) has any adjacency list, the others list
\* either nothing or every other vertex
GraphDicts ==
    { [n \in 1..(MaxVertex + 1) |->
          <<PyInt(n - 1),
            [pos |-> Position(n - 1),
             adj |-> IF n - 1 = focus THEN adj
                     ELSE IF full[n - 1] THEN AllOthers(n - 1) ELSE <<>>,
             cfg |-> OwnConfig(n - 1)]>>] :
        focus \in VertexIds,
        adj \in AdjLists(GoodEntries \cup BadEntries),
        full \in [VertexIds -> BOOLEAN] }

\* the same with one more item whose key is a str
WithStrKey(g) == Append(g, <<PyStr, [pos |-> <<9, 9>>, adj |-> <<>>, cfg |-> EmptyDict]>>)

Keys(g) == { g[n][1] : n \in 1..Len(g) }

\* graph[key]
Lookup(g, key) == (CHOOSE n \in 1..Len(g) : g[n][1] = key)

\* lines 1138-1146: the two validations
KeysValid(g) == \A n \in 1..Len(g) : IsInstance(g[n][1], "int")
AdjValid(g) ==
    \A n \in 1..Len(g) :
        \A m \in 1..Len(g[n][2].adj) :
            IsInstance(g[n][2].adj[m], "int") \/ IsInstance(g[n][2].adj[m], "list")

\* a validation that asks a list entry to be [int, dict], as the message says
AdjValidStrict(g) ==
    \A n \in 1..Len(g) :
        \A m \in 1..Len(g[n][2].adj) :
            LET e == g[n][2].adj[m]
            IN  \/ IsInstance(e, "int")
                \/ /\ IsInstance(e, "list")
                   /\ Len(e.items) = 2
                   /\ IsInstance(e.items[1], "int")
                   /\ IsInstance(e.items[2], "dict")

\* the arguments bound, nothing run yet
InitGraph ==
    /\ \E g \in GraphDicts, strKey \in BOOLEAN, ec \in EdgeConfigs :
          graph = [pc |-> "start",
                   graph |-> IF strKey THEN WithStrKey(g) ELSE g,
                   vertex_config |-> VertexConfig,
                   edge_config |-> ec,
                   vertices |-> <<>>,
                   edges |-> <<>>,
                   err |-> "",
                   i |-> 0]
    /\ tiling = Idle
    /\ arc = Idle
    /\ poly = Idle
    /\ path = Idle

\* lines 1138-1149
GraphValidate ==
    /\ graph.pc = "start"
    /\ IF ~KeysValid(graph.graph) \/ ~AdjValid(graph.graph)
       THEN graph' = [graph EXCEPT !.pc = "raised", !.err = "ValueError"]
       ELSE graph' = [graph EXCEPT !.pc = "loop"]
    /\ UNCHANGED <<tiling, arc, poly, path>>

\* a slip: an edge is drawn for every entry that names another vertex, in
\* either direction
ProcessEntryBothWays(st, g, edge_config, vertex, attributes, entry) ==
    IF IsInstance(entry, "list") /\ Len(entry.items) < 2
    THEN [st EXCEPT !.err = "IndexError"]
    ELSE LET vertex_number == IF IsInstance(entry, "int") THEN entry ELSE entry.items[1]
             edge_kwargs == IF IsInstance(entry, "int") THEN PyDict(EmptyDict) ELSE entry.items[2]
         IN  IF ~IsInstance(vertex_number, "int")
             THEN [st EXCEPT !.err = "TypeError"]
             ELSE IF vertex.n = vertex_number.n
             THEN st
             ELSE IF vertex_number \notin Keys(g)
             THEN [st EXCEPT !.err = "KeyError"]
             ELSE IF ~IsInstance(edge_kwargs, "dict")
             THEN [st EXCEPT !.err = "TypeError"]
             ELSE [st EXCEPT !.edges = Append(@,
                      [start |-> attributes.pos,
                       end |-> g[Lookup(g, vertex_number)][2].pos,
                       kwargs |-> Merge(Merge([angle |-> 0], edge_config), edge_kwargs.d)])]

\* lines 1157-1169: one adjacency entry of the vertex; st is [edges, err]
ProcessEntry(st, g, edge_config, vertex, attributes, entry) ==
    IF IsInstance(entry, "list") /\ Len(entry.items) < 2
    THEN [st EXCEPT !.err = "IndexError"]
    ELSE LET vertex_number == IF IsInstance(entry, "int") THEN entry ELSE entry.items[1]
             edge_kwargs == IF IsInstance(entry, "int") THEN PyDict(EmptyDict) ELSE entry.items[2]
         IN  IF ~IsInstance(vertex_number, "int")
             THEN [st EXCEPT !.err = "TypeError"]
             ELSE IF ~(vertex.n < vertex_number.n)
             THEN st
             ELSE IF vertex_number \notin Keys(g)
             THEN [st EXCEPT !.err = "KeyError"]
             ELSE IF ~IsInstance(edge_kwargs, "dict")
             THEN [st EXCEPT !.err = "TypeError"]
             ELSE [st EXCEPT !.edges = Append(@,
                      [start |-> attributes.pos,
                       end |-> g[Lookup(g, vertex_number)][2].pos,
                       kwargs |-> Merge(Merge([angle |-> 0], edge_config), edge_kwargs.d)])]

\* for edge_definition in attributes[1], from entry m on
RECURSIVE ProcessEntries(_, _, _, _, _, _)
ProcessEntries(st, g, edge_config, vertex, attributes, m) ==
    IF st.err # "" \/ m > Len(attributes.adj)
    THEN st
    ELSE ProcessEntries(ProcessEntry(st, g, edge_config, vertex, attributes, attributes.adj[m]),
                        g, edge_config, vertex, attributes, m + 1)

\* lines 1152-1169: one iteration of the loop over graph.items()
GraphVertexStep ==
    /\ graph.pc = "loop"
    /\ LET g == graph.graph
           vertex == g[graph.i + 1][1]
           attributes == g[graph.i + 1][2]
           shape == [pos |-> attributes.pos,
                     kwargs |-> Merge(graph.vertex_config, attributes.cfg)]
           res == ProcessEntries([edges |-> graph.edges, err |-> ""],
                                 g, graph.edge_config, vertex, attributes, 1)
       IN  graph' = [graph EXCEPT
                !.vertices = Append(@, shape),
                !.edges = res.edges,
                !.err = res.err,
                !.i = @ + 1,
                !.pc = IF res.err # "" THEN "raised"
                       ELSE IF graph.i + 1 = Len(g) THEN "done" ELSE "loop"]
    /\ UNCHANGED <<tiling, arc, poly, path>>

NextGraph == GraphValidate \/ GraphVertexStep

SpecGraph == InitGraph /\ [][NextGraph]_vars

(***************************************************************************)
(* Observations on a built graph.                                          *)
(***************************************************************************)
\* the vertex an adjacency entry names: the id, or the first item of a list
Names(entry, v) ==
    \/ entry = PyInt(v)
    \/ IsInstance(entry, "list") /\ Len(entry.items) >= 1 /\ entry.items[1] = PyInt(v)

\* the number of entries of u's adjacency list that name v
Declared(g, u, v) ==
    Cardinality({ m \in 1..Len(g[Lookup(g, PyInt(u))][2].adj) :
                    Names(g[Lookup(g, PyInt(u))][2].adj[m], v) })

\* the number of edge shapes drawn from u's position to v's position
Drawn(u, v) ==
    Cardinality({ m \in 1..Len(graph.edges) :
                    graph.edges[m].start = Position(u) /\ graph.edges[m].end = Position(v) })

\* every edge is declared in both directions
Complete(g) == \A n \in 1..Len(g) : g[n][1] \in { PyInt(u) : u \in VertexIds }
                                    /\ g[n][2].adj = AllOthers(g[n][1].n)

(* C1: a finished construction has one vertex shape per key of the graph    *)
(* dictionary, at the key's position, and one edge shape per adjacency      *)
(* entry (u, v) with u < v, from u's position to v's; entries with v <= u   *)
(* (self-loops included) give no edge.  A graph that declares every edge in *)
(* both directions has as many edges as unordered pairs: 3 on {0, 1, 2}.    *)
C1_OneShapePerVertexAndPerForwardEntry ==
    graph.pc = "done" =>
        LET g == graph.graph
        IN  /\ Len(graph.vertices) = Len(g)
            /\ \A n \in 1..Len(g) : graph.vertices[n].pos = g[n][2].pos
            /\ \A u, v \in VertexIds :
                  Drawn(u, v) = IF u < v THEN Declared(g, u, v) ELSE 0
            /\ \A m \in 1..Len(graph.edges) :
                  \E u, v \in VertexIds :
                      /\ u < v
                      /\ graph.edges[m].start = Position(u)
                      /\ graph.edges[m].end = Position(v)
            /\ Complete(g) =>
                  /\ Len(graph.vertices) = MaxVertex + 1
                  /\ Len(graph.edges) = ((MaxVertex + 1) * MaxVertex) \div 2

\* the finished graph on 0 .. MaxVertex with every edge declared both ways
C1_Witness ==
    /\ graph.pc = "done"
    /\ Complete(graph.graph)
    /\ Len(graph.edges) = ((MaxVertex + 1) * MaxVertex) \div 2
    /\ Declared(graph.graph, MaxVertex, 0) = 1
    /\ Drawn(MaxVertex, 0) = 0

\* some key is not an int, or some entry is neither an id nor [id, config]
Malformed(g) == ~KeysValid(g) \/ ~AdjValidStrict(g)

(* C6: the construction of a graph dictionary with a non-integer key, or   *)
(* with an adjacency entry that is neither an integer id nor an             *)
(* [id, override-config] pair, ends in ValueError with no vertex or edge    *)
(* shape created: it neither completes nor fails later, with another error, *)
(* after shapes were created.                                               *)
C6_MalformedGraphRefusedBeforeAnyShape ==
    (graph.pc # "idle" /\ Malformed(graph.graph)) =>
        /\ graph.pc # "done"
        /\ graph.pc = "raised" =>
              /\ graph.err = "ValueError"
              /\ graph.vertices = <<>>
              /\ graph.edges = <<>>

(***************************************************************************)
(* ArcBetweenPoints.  Endpoints are grid points; lengths are compared by   *)
(* their squares, so that the model computes with integers what the code   *)
(* computes with floats: halfdist^2 = dist2 / 4.  An angle derived from a  *)
(* radius is kept as sign * acos(sqrt(num / den)); an angle given by the   *)
(* caller is kept by name.                                                 *)
(***************************************************************************)
GridPoints == (0..MaxGrid) \X (0..MaxGrid)

\* |a - b|^2
Dist2(a, b) == (a[1] - b[1]) * (a[1] - b[1]) + (a[2] - b[2]) * (a[2] - b[2])

\* the radius argument: None, or a number
None == [some |-> FALSE]
Some(n) == [some |-> TRUE, n |-> n]
RadiusArgs == {None} \cup { Some(n) : n \in (-MaxRadius)..MaxRadius }

\* self.radius before the constructor sets it: the CONFIG default
DefaultRadius == [kind |-> "default"]
AngleArgs == {"TAU/4", "0"}

\* radius < halfdist, for radius >= 0: 4 radius^2 < |start - end|^2
RadiusTooSmall(radius, dist2) == 4 * radius * radius < dist2

\* lines 273-287: the angle derived from the radius, or the error raised
DeriveAngle(start, end, radius) ==
    LET sign == IF radius < 0 THEN -2 ELSE 2
        r == Abs(radius)
        dist2 == Dist2(start, end)
    IN  IF RadiusTooSmall(r, dist2)
        THEN [err |-> "ValueError"]
        ELSE IF 4 * r * r - dist2 < 0
        THEN [err |-> "ValueError: math domain error"]       \* math.sqrt of a negative
        ELSE IF r = 0
        THEN [err |-> "ZeroDivisionError"]                   \* (radius - arc_height) / radius
        ELSE [err |-> "",
              angle |-> [kind |-> "derived", sign |-> sign,
                         num |-> 4 * r * r - dist2, den |-> 4 * r * r]]

\* angle == 0
AngleIsZero(angle) ==
    IF angle.kind = "derived" THEN angle.num = angle.den ELSE angle.name = "0"

\* the call ArcBetweenPoints(start, end, angle, radius), nothing run yet
InitArc ==
    /\ \E a \in GridPoints, b \in GridPoints, r \in RadiusArgs, an \in AngleArgs :
          arc = [pc |-> "start", start |-> a, end |-> b,
                 radius_arg |-> r,
                 angle |-> [kind |-> "given", name |-> an],
                 radius |-> DefaultRadius,
                 points |-> "none",
                 failed_to_get_center |-> FALSE,
                 center |-> None,
                 err |-> ""]
    /\ tiling = Idle
    /\ graph = Idle
    /\ poly = Idle
    /\ path = Idle

\* lines 273-287
ArcDerive ==
    /\ arc.pc = "start"
    /\ IF arc.radius_arg = None
       THEN arc' = [arc EXCEPT !.pc = "derived"]
       ELSE LET res == DeriveAngle(arc.start, arc.end, arc.radius_arg.n)
                given == [kind |-> "given", n |-> arc.radius_arg.n]
            IN  IF res.err # ""
                THEN arc' = [arc EXCEPT !.pc = "raised", !.err = res.err,
                                        !.radius = given]
                ELSE arc' = [arc EXCEPT !.pc = "derived", !.angle = res.angle,
                                        !.radius = given]
    /\ UNCHANGED <<tiling, graph, poly, path>>

\* lines 289-294: Arc.__init__ builds the points; a zero angle gives the
\* straight two-point path; the path is put on start and end
ArcBuild ==
    /\ arc.pc = "derived"
    /\ arc' = [arc EXCEPT !.pc = "built",
                          !.points = IF AngleIsZero(arc.angle) THEN "line" ELSE "arc"]
    /\ UNCHANGED <<tiling, graph, poly, path>>

\* rotate_vector(t, TAU / 4)
Normal(t) == <<-t[2], t[1]>>

Det(a, b) == a[1] * b[2] - a[2] * b[1]

\* space_ops.line_intersection: the point where two lines, each given by two
\* of its points, meet; an exception when the determinant is 0
line_intersection(line1, line2) ==
    LET x_diff == <<line1[1][1] - line1[2][1], line2[1][1] - line2[2][1]>>
        y_diff == <<line1[1][2] - line1[2][2], line2[1][2] - line2[2][2]>>
        div == Det(x_diff, y_diff)
        d == <<Det(line1[1], line1[2]), Det(line2[1], line2[2])>>
    IN  IF div = 0 THEN [err |-> "Lines do not intersect"]
        ELSE [err |-> "", x |-> RNorm(Det(d, x_diff), div),
                          y |-> RNorm(Det(d, y_diff), div)]

\* h1 - a1 and h2 - a2 of the path put on start and end, up to a positive
\* factor.  The straight path has its handles on the segment.  On the
\* quarter turn the first tangent is the chord turned back by an eighth of a
\* turn; the second is taken at the far end of the arc, where the code
\* takes it at the second anchor: every normal of a circular arc passes
\* through its centre.  A path collapsed on one point has no tangent.
Tangents(a) ==
    LET dx == a.end[1] - a.start[1]
        dy == a.end[2] - a.start[2]
    IN  IF a.start = a.end THEN [a2 |-> a.start, t1 |-> <<0, 0>>, t2 |-> <<0, 0>>]
        ELSE IF a.points = "line"
        THEN [a2 |-> a.end, t1 |-> <<dx, dy>>, t2 |-> <<-dx, -dy>>]
        ELSE [a2 |-> a.end, t1 |-> <<dx + dy, dy - dx>>,
                            t2 |-> <<dy - dx, -dx - dy>>]

Origin == [some |-> TRUE, x |-> R(0), y |-> R(0)]

\* a slip: the origin is returned without the failure being flagged
GetArcCenterUnflagged(a) ==
    LET tg == Tangents(a)
        hit == line_intersection(<<a.start, <<a.start[1] + Normal(tg.t1)[1],
                                              a.start[2] + Normal(tg.t1)[2]>> >>,
                                 <<tg.a2, <<tg.a2[1] + Normal(tg.t2)[1],
                                            tg.a2[2] + Normal(tg.t2)[2]>> >>)
    IN  IF hit.err = ""
        THEN [center |-> [some |-> TRUE, x |-> hit.x, y |-> hit.y],
              failed |-> a.failed_to_get_center]
        ELSE [center |-> Origin, failed |-> a.failed_to_get_center]

\* lines 238-257: the value returned and the flag afterwards
get_arc_center(a) ==
    LET tg == Tangents(a)
        n1 == Normal(tg.t1)
        n2 == Normal(tg.t2)
        hit == line_intersection(<<a.start, <<a.start[1] + n1[1], a.start[2] + n1[2]>> >>,
                                 <<tg.a2, <<tg.a2[1] + n2[1], tg.a2[2] + n2[2]>> >>)
    IN  IF hit.err = ""
        THEN [center |-> [some |-> TRUE, x |-> hit.x, y |-> hit.y],
              failed |-> a.failed_to_get_center]
        ELSE [center |-> Origin, failed |-> TRUE]

\* |p - c|^2 for a grid point p and a rational point c
RDist2(p, c) ==
    RAdd(RMul(RSub(R(p[1]), c.x), RSub(R(p[1]), c.x)),
         RMul(RSub(R(p[2]), c.y), RSub(R(p[2]), c.y)))

\* lines 296-301; a distance is recorded by its square
ArcRadius ==
    /\ arc.pc = "built"
    /\ IF arc.radius_arg = None
       THEN LET got == get_arc_center(arc)
            IN  arc' = [arc EXCEPT
                          !.pc = "done",
                          !.center = got.center,
                          !.failed_to_get_center = got.failed,
                          !.radius = IF ~got.failed
                                     THEN [kind |-> "distance",
                                           sq |-> RDist2(arc.start, got.center)]
                                     ELSE [kind |-> "inf"]]
       ELSE arc' = [arc EXCEPT !.pc = "done"]
    /\ UNCHANGED <<tiling, graph, poly, path>>

NextArc == ArcDerive \/ ArcBuild \/ ArcRadius

SpecArc == InitArc /\ [][NextArc]_vars

(* C4: ArcBetweenPoints(start, end, radius=r) raises ValueError exactly     *)
(* when |r| is less than half the distance from start to end, no path       *)
(* points exist when it does, and for every other r, |r| equal to half the  *)
(* chord included, deriving the angle raises nothing.                       *)
C4_InvalidRadiusExactlyBelowHalfChord ==
    (arc.pc \in {"raised", "derived", "built"} /\ arc.radius_arg # None) =>
        LET tooSmall == 4 * arc.radius_arg.n * arc.radius_arg.n < Dist2(arc.start, arc.end)
        IN  /\ (arc.pc = "raised" /\ arc.err = "ValueError") <=> tooSmall
            /\ arc.pc = "raised" => arc.points = "none"
            /\ ~tooSmall => arc.pc # "raised"

(***************************************************************************)
(* Polygon.round_corners.  Vertices are grid points.  A point of the       *)
(* rounded path is kept by the vertex it belongs to and its side: "at" the *)
(* vertex, "before" it (v2 - unit_vect1 * cut_off_length), "after" it      *)
(* (v2 + unit_vect2 * cut_off_length), or "far" from it (a reversal, where *)
(* tan(angle / 2) is huge and both cut points fall together).  The path    *)
(* is the sequence of its pieces.                                          *)
(***************************************************************************)
PolyPoints == (0..MaxGrid) \X (0..1)

\* vertex lists without a repeated point
Polygons ==
    { vs \in UNION { [1..n -> PolyPoints] : n \in 3..MaxSides } :
        \A a, b \in 1..Len(vs) : a # b => vs[a] # vs[b] }

PolyRadii == {-1, 0, 1}

\* the element at 1-based position n of a list taken cyclically
Cyc(l, n) == l[((n - 1) % Len(l)) + 1]

Pt(vertex, side) == [vertex |-> vertex, side |-> side]

\* Polygon.__init__: set_points_as_corners([*vertices, vertices[0]])
EdgePath(vs) ==
    [n \in 1..Len(vs) |->
        [kind |-> "edge", from |-> Pt(n, "at"), to |-> Pt((n % Len(vs)) + 1, "at")]]

Cross(a, b) == a[1] * b[2] - a[2] * b[1]
Dot(a, b) == a[1] * b[1] + a[2] * b[2]
Minus(a, b) == <<a[1] - b[1], a[2] - b[2]>>

\* lines 697-713: the arc that rounds the middle vertex of the t-th triple of
\* adjacent_n_tuples(vertices, 3), the vertex at position t + 1
CornerArc(vs, t, radius) ==
    LET corner == (t % Len(vs)) + 1
        vect1 == Minus(Cyc(vs, t + 1), Cyc(vs, t))
        vect2 == Minus(Cyc(vs, t + 2), Cyc(vs, t + 1))
        sign == Cross(vect1, vect2)                       \* its sign is np.sign(...)
        \* angle_between_vectors(vect1, vect2) * np.sign(radius) is zero
        angleZero == radius = 0 \/ (Cross(vect1, vect2) = 0 /\ Dot(vect1, vect2) > 0)
        reversal == radius # 0 /\ Cross(vect1, vect2) = 0 /\ Dot(vect1, vect2) < 0
        start == IF angleZero THEN Pt(corner, "at")
                 ELSE IF reversal THEN Pt(corner, "far") ELSE Pt(corner, "before")
        end ==   IF angleZero THEN Pt(corner, "at")
                 ELSE IF reversal THEN Pt(corner, "far") ELSE Pt(corner, "after")
    IN  [kind |-> "arc", from |-> start, to |-> end,
         \* ArcBetweenPoints(..., angle=sign * angle): a zero angle gives the
         \* straight two-point path (lines 292-293)
         straight |-> (sign = 0 \/ angleZero)]

\* the arc length of a piece is zero when its ends coincide
ArcLengthZero(piece) == piece.from = piece.to

\* lines 720-723: int(arc1.get_num_curves() * (line.get_length() / arc1.get_arc_length()))
\* numpy divides by zero to inf (nan for 0 / 0), and int() refuses both
InsertCount(arc1, arc2) ==
    IF ArcLengthZero(arc1)
    THEN IF arc1.to = arc2.from THEN "ValueError" ELSE "OverflowError"
    ELSE ""

\* a Polygon on the vertices, about to have round_corners(radius) called
InitPoly ==
    /\ \E vs \in Polygons, r \in PolyRadii :
          poly = [pc |-> "start", vertices |-> vs, radius |-> r,
                  path |-> EdgePath(vs), arcs |-> <<>>, k |-> 0, err |-> ""]
    /\ tiling = Idle
    /\ graph = Idle
    /\ arc = Idle
    /\ path = Idle

\* lines 694-717: the arcs, clear_points, the rotation of the arc list
RoundCornersArcs ==
    /\ poly.pc = "start"
    /\ LET n == Len(poly.vertices)
           arcs == [t \in 1..n |-> CornerArc(poly.vertices, t, poly.radius)]
           rotated == [t \in 1..n |-> IF t = 1 THEN arcs[n] ELSE arcs[t - 1]]
       IN  poly' = [poly EXCEPT !.pc = "pairs", !.arcs = rotated, !.path = <<>>]
    /\ UNCHANGED <<tiling, graph, arc, path>>

\* lines 718-724: one pair of adjacent_pairs(arcs)
RoundCornersPair ==
    /\ poly.pc = "pairs"
    /\ LET n == Len(poly.arcs)
           arc1 == Cyc(poly.arcs, poly.k + 1)
           arc2 == Cyc(poly.arcs, poly.k + 2)
           line == [kind |-> "connector", from |-> arc1.to, to |-> arc2.from]
           bad == InsertCount(arc1, arc2)
       IN  IF bad # ""
           THEN poly' = [poly EXCEPT !.pc = "raised", !.err = bad,
                                     !.path = Append(@, arc1)]
           ELSE poly' = [poly EXCEPT !.path = Append(Append(@, arc1), line),
                                     !.k = @ + 1,
                                     !.pc = IF poly.k + 1 = n THEN "done" ELSE "pairs"]
    /\ UNCHANGED <<tiling, graph, arc, path>>

NextPoly == RoundCornersArcs \/ RoundCornersPair

SpecPoly == InitPoly /\ [][NextPoly]_vars

\* get_vertices(): the start anchors of the pieces of the path
StartAnchors(pieces) == [n \in 1..Len(pieces) |-> pieces[n].from]

(* C7: round_corners(0) changes nothing: the call ends without an error,    *)
(* the path runs through the same vertex positions in the same order as     *)
(* before, and it holds no zero-length piece at a corner.                   *)
C7_RoundCornersZeroIsNoOp ==
    (poly.pc \in {"raised", "done"} /\ poly.radius = 0) =>
        /\ poly.pc = "done"
        /\ poly.err = ""
        /\ \A n \in 1..Len(poly.path) : poly.path[n].from # poly.path[n].to
        /\ StartAnchors(poly.path) = StartAnchors(EdgePath(poly.vertices))


-----------------------------------------------------------------------------
(* TipableVMobject: a straight path on the x axis, its tips, and the calls  *)
(* add_tip / pop_tips made on it.  Coordinates are exact rationals          *)
(* <<numerator, denominator>> in units of 0.05, so the default tip length   *)
(* 0.35 is 7.                                                               *)

TipLength == 7      \* DEFAULT_ARROW_TIP_LENGTH = 0.35
ArrowBuff == 5      \* Arrow's buff, MED_SMALL_BUFF = 0.25
MaxTipRatioInv == 4 \* max_tip_length_to_length_ratio = 0.25 = 1 / 4


\* interpolate(a, b, alpha) with alpha = num / den
Interpolate(a, b, num, den) == RAdd(a, RMul(RSub(b, a), RNorm(num, den)))

\* F applied to val, with val computed once
Then(val, F(_)) == CHOOSE r \in { F(x) : x \in {val} } : TRUE

\* `mob in self`: the mobject is one of the children
Contains(p, id) == \E n \in 1..Len(p.submobjects) : p.submobjects[n] = id

\* Mobject.add: list_update(submobjects, [mob])
Add(p, id) ==
    [p EXCEPT !.submobjects =
        Append(SelectSeq(p.submobjects, LAMBDA c : c # id), id)]

\* Mobject.remove
Remove(p, id) ==
    [p EXCEPT !.submobjects = SelectSeq(p.submobjects, LAMBDA c : c # id)]

\* lines 127-128; tip = 0 stands for "the attribute was never assigned"
has_tip(p) == p.tip # 0 /\ Contains(p, p.tip)

\* lines 130-131
has_start_tip(p) == p.start_tip # 0 /\ Contains(p, p.start_tip)

\* lines 177-181; the tip's get_start() is its first point, the apex
get_end(p) == IF has_tip(p) THEN p.tips[p.tip].apex ELSE p.points_end

\* lines 183-187
get_start(p) ==
    IF has_start_tip(p) THEN p.tips[p.start_tip].apex ELSE p.points_start

\* lines 189-191
get_length(p) == RAbs(RSub(get_start(p), get_end(p)))

\* lines 171-172: points[1] of the single cubic piece of the straight path
get_first_handle(p) == Interpolate(p.points_start, p.points_end, 1, 3)

\* lines 174-175: points[-2]
get_last_handle(p) == Interpolate(p.points_start, p.points_end, 2, 3)

\* lines 641-643: Arrow.get_default_tip_length
ArrowDefaultTipLength(p) ==
    LET ratio == RMul(RNorm(1, MaxTipRatioInv), get_length(p))
    IN  IF RLess(ratio, R(TipLength)) THEN ratio ELSE R(TipLength)

\* lines 168-169, overridden by Arrow
get_default_tip_length(p) ==
    IF p.cls = "Arrow" THEN ArrowDefaultTipLength(p) ELSE R(TipLength)

\* lines 92-103 with ArrowTip (804-830): the apex lands on the anchor and the
\* tip points away from the handle; angle_of_vector(0) is 0, which leaves
\* the tip pointing towards negative x
position_tip(p, length, at_start) ==
    LET anchor == IF at_start THEN get_start(p) ELSE get_end(p)
        handle == IF at_start THEN get_first_handle(p) ELSE get_last_handle(p)
        towards == IF RLess(handle, anchor) THEN R(1) ELSE R(-1)
    IN  [apex |-> anchor, base |-> RSub(anchor, RMul(towards, length)),
         at_start |-> at_start]

\* lines 69-90
create_tip(p, at_start) == position_tip(p, get_default_tip_length(p), at_start)

\* F applied to every point of the path and of its children
MoveFamily(p, F(_)) ==
    [p EXCEPT !.points_start = F(@),
              !.points_end = F(@),
              !.tips = [n \in 1..Len(p.tips) |->
                          IF Contains(p, n)
                          THEN [p.tips[n] EXCEPT !.apex = F(@), !.base = F(@)]
                          ELSE p.tips[n]]]

\* Arrow.scale, defined below: Mobject.put_start_and_end_on scales through
\* self.scale, which an Arrow overrides
RECURSIVE scale(_, _, _)

\* Mobject.put_start_and_end_on on an Arrow: self.scale(...) is Arrow.scale;
\* the rotation, by 0 or by half a turn on the axis, and the shift act on the
\* path and its children
ArrowPutStartAndEndOn(p0, start, end) ==
    Then(<<p0, get_start(p0), get_end(p0), start, end>>, LAMBDA a :
        LET curr_start == a[2]
            curr_vect == RSub(a[3], a[2])
            target_vect == RSub(a[5], a[4])
            turned == RLess(target_vect, R(0)) # RLess(curr_vect, R(0))
        IN  IF curr_vect = R(0)
            THEN [p |-> a[1], err |-> "Cannot position endpoints of closed loop"]
            ELSE Then(scale(a[1], RDiv(RAbs(target_vect), RAbs(curr_vect)),
                            [some |-> TRUE, at |-> curr_start]), LAMBDA scaled :
                    IF scaled.err # "" THEN [p |-> scaled.p, err |-> scaled.err]
                    ELSE [p |-> MoveFamily(scaled.p, LAMBDA x :
                                   RAdd(IF turned
                                        THEN RSub(RMul(R(2), curr_start), x)
                                        ELSE x,
                                        RSub(a[4], curr_start))),
                          err |-> ""]))

\* Mobject.put_start_and_end_on: refuses a closed loop, else scales, rotates
\* and shifts the path and its children so that start and end land on target
MobjectPutStartAndEndOn(p0, start, end) ==
    Then(<<p0, get_start(p0), get_end(p0), start, end>>, LAMBDA a :
        LET p == a[1]
            curr_start == a[2]
            curr_end == a[3]
            Move(x) == RAdd(a[4], RMul(RSub(x, curr_start),
                                       RDiv(RSub(a[5], a[4]),
                                            RSub(curr_end, curr_start))))
        IN  IF p.cls = "Arrow" THEN ArrowPutStartAndEndOn(p, a[4], a[5])
            ELSE IF curr_start = curr_end
            THEN [p |-> p, err |-> "Cannot position endpoints of closed loop"]
            ELSE [p |-> [p EXCEPT
                           !.points_start = Move(@),
                           !.points_end = Move(@),
                           !.tips = [n \in 1..Len(p.tips) |->
                                       IF Contains(p, n)
                                       THEN [p.tips[n] EXCEPT !.apex = Move(@),
                                                              !.base = Move(@)]
                                       ELSE p.tips[n]]],
                  err |-> ""])

\* VMobject.get_arc_length of a straight path
get_arc_length(p) == RAbs(RSub(p.points_end, p.points_start))

\* VMobject.pointwise_become_partial(self, a, b) on a straight path of one
\* piece: the whole path when a <= 0 and b >= 1, else the piece from
\* proportion a to proportion b
PointwiseBecomePartial(p, a, b) ==
    IF ~RLess(R(0), a) /\ ~RLess(b, R(1)) THEN p
    ELSE [p EXCEPT
            !.points_start = RAdd(p.points_start,
                                  RMul(RSub(p.points_end, p.points_start), a)),
            !.points_end = RAdd(p.points_start,
                                RMul(RSub(p.points_end, p.points_start), b))]

\* lines 440-453; path_arc is None, so the length is the arc length
account_for_buff(p) ==
    IF p.buff = R(0) THEN p
    ELSE LET length == get_arc_length(p)
         IN  IF RLess(length, RMul(R(2), p.buff)) THEN p
             ELSE LET buff_proportion == RDiv(p.buff, length)
                  IN  PointwiseBecomePartial(p, buff_proportion,
                                             RSub(R(1), buff_proportion))

\* lines 428-434 with no path_arc: set_points_as_corners([start, end]), then
\* account_for_buff
generate_points(p) ==
    account_for_buff([p EXCEPT !.points_start = p.start, !.points_end = p.end])

\* lines 476-484
LinePutStartAndEndOn(p0, start, end) ==
    Then(p0, LAMBDA p :
        IF get_start(p) = get_end(p)
        THEN MobjectPutStartAndEndOn(
                 generate_points([p EXCEPT !.start = start, !.end = end]),
                 start, end)
        ELSE MobjectPutStartAndEndOn(p, start, end))

\* method resolution: Line and Arrow override, an arc inherits Mobject's
put_start_and_end_on(p, start, end) ==
    IF p.cls \in {"Line", "Arrow"} THEN LinePutStartAndEndOn(p, start, end)
    ELSE MobjectPutStartAndEndOn(p, start, end)

\* lines 105-116
reset_endpoints_based_on_tip(p0, tip, at_start) ==
    Then(p0, LAMBDA p :
        IF get_length(p) = R(0) THEN [p |-> p, err |-> ""]
        ELSE IF at_start THEN put_start_and_end_on(p, tip.base, get_end(p))
        ELSE put_start_and_end_on(p, get_start(p), tip.base))

AsignAlwaysEnd(p, id, at_start) == [p EXCEPT !.tip = id]

\* lines 118-123
asign_tip_attr(p, id, at_start) ==
    IF at_start THEN [p EXCEPT !.start_tip = id] ELSE [p EXCEPT !.tip = id]

\* lines 58-68; the new tip is the next object, Len(tips) + 1
add_tip(p0, at_start) ==
    Then(p0, LAMBDA p :
    Then(create_tip(p, at_start), LAMBDA tip :
    Then(reset_endpoints_based_on_tip([p EXCEPT !.tips = Append(@, tip)],
                                      tip, at_start), LAMBDA reset :
        LET id == Len(p.tips) + 1
        IN  IF reset.err # "" THEN [p |-> reset.p, err |-> reset.err, ret |-> <<>>]
            ELSE [p |-> Add(asign_tip_attr(reset.p, id, at_start), id),
                  err |-> "", ret |-> <<id>>])))

\* lines 135-145
pop_tips(p0) ==
    Then(p0, LAMBDA p :
    Then(IF has_tip(p) THEN Remove(p, p.tip) ELSE p, LAMBDA p1 :
    Then(IF has_start_tip(p1) THEN Remove(p1, p1.start_tip) ELSE p1, LAMBDA p2 :
    Then(put_start_and_end_on(p2, get_start(p), get_end(p)), LAMBDA put :
        LET r1 == IF has_tip(p) THEN <<p.tip>> ELSE <<>>
            r2 == IF has_start_tip(p1) THEN r1 \o <<p1.start_tip>> ELSE r1
        IN  [p |-> put.p, err |-> put.err,
             ret |-> IF put.err = "" THEN r2 ELSE <<>>]))))

GetTipsHasTip(p) ==
    (IF has_tip(p) THEN <<p.tip>> ELSE <<>>)
        \o (IF has_start_tip(p) THEN <<p.start_tip>> ELSE <<>>)

\* lines 147-157
get_tips(p) ==
    (IF p.tip # 0 THEN <<p.tip>> ELSE <<>>)
        \o (IF p.start_tip # 0 THEN <<p.start_tip>> ELSE <<>>)

\* lines 159-166; 0 stands for Exception("tip not found")
get_tip(p) == IF Len(get_tips(p)) = 0 THEN 0 ELSE get_tips(p)[1]


\* the paths under test: Line(start, end) and ArcBetweenPoints(start, end,
\* angle=0), both straight; start = end gives a path of length zero
PathClasses == {"Line", "ArcBetweenPoints"}
PathStarts == {0, 4}
PathEnds == {-20, 4, 7, 11, 24}

\* what a caller can observe of the path before a call
Observe(p) ==
    [start |-> get_start(p), end |-> get_end(p), length |-> get_length(p),
     attached |-> (IF has_tip(p) THEN <<p.tip>> ELSE <<>>)
                  \o (IF has_start_tip(p) THEN <<p.start_tip>> ELSE <<>>),
     has_tip |-> has_tip(p), has_start_tip |-> has_start_tip(p),
     tip |-> p.tip, start_tip |-> p.start_tip,
     points_start |-> p.points_start, points_end |-> p.points_end,
     submobjects |-> p.submobjects, tips |-> p.tips]

\* the record of one call: what was called, what it returned or raised
Called(p, op, at_start, out) ==
    [out.p EXCEPT !.calls = Append(@, [op |-> op, at_start |-> at_start,
                                       err |-> out.err, ret |-> out.ret,
                                       before |-> Observe(p)])]

\* lines 421-434 (Line) and 267-301 with angle 0 (ArcBetweenPoints)
InitTip ==
    /\ \E cls \in PathClasses, s \in PathStarts, e \in PathEnds :
         path = [pc |-> "live", cls |-> cls,
                 start |-> R(s), end |-> R(e), buff |-> R(0),
                 points_start |-> R(s), points_end |-> R(e),
                 submobjects |-> <<>>, tips |-> <<>>,
                 tip |-> 0, start_tip |-> 0, calls |-> <<>>]
    /\ tiling = Idle
    /\ graph = Idle
    /\ arc = Idle
    /\ poly = Idle

\* a caller invokes add_tip(at_start=...)
AddTip ==
    /\ path.pc = "live"
    /\ Len(path.calls) < MaxCalls
    /\ \E at_start \in BOOLEAN :
         path' = Called(path, "add_tip", at_start, add_tip(path, at_start))
    /\ UNCHANGED <<tiling, graph, arc, poly>>

\* a caller invokes pop_tips()
PopTips ==
    /\ path.pc = "live"
    /\ Len(path.calls) < MaxCalls
    /\ path' = Called(path, "pop_tips", FALSE, pop_tips(path))
    /\ UNCHANGED <<tiling, graph, arc, poly>>

NextTip == AddTip \/ PopTips

\* the least and the greatest of a set of coordinates
RMin(S) == CHOOSE x \in S : \A y \in S : ~RLess(y, x)
RMax(S) == CHOOSE x \in S : \A y \in S : ~RLess(x, y)

\* Mobject.scale(factor, about_point=...) on the path and its children; with
\* no about_point, about the centre of their bounding box
VMobjectScale(p0, factor, about) ==
    Then(p0, LAMBDA p :
        LET kids == { n \in 1..Len(p.tips) : Contains(p, n) }
            xs == {p.points_start, p.points_end}
                     \cup { p.tips[n].apex : n \in kids }
                     \cup { p.tips[n].base : n \in kids }
        IN  Then(IF about.some THEN about.at
                 ELSE RMul(RAdd(RMin(xs), RMax(xs)), RNorm(1, 2)), LAMBDA centre :
                MoveFamily(p, LAMBDA x : RAdd(centre, RMul(factor, RSub(x, centre))))))

\* lines 618-630: add_tip, give the old tip the new tip's points, remove the
\* new tip and put the old one in its place; old_tips[idx] raises IndexError
\* when the group popped holds no such tip
Reattach(p, old_tips, idx, at_start) ==
    Then(add_tip(p, at_start), LAMBDA added :
        IF added.err # "" THEN [p |-> added.p, err |-> added.err]
        ELSE IF idx >= Len(old_tips) THEN [p |-> added.p, err |-> "IndexError"]
        ELSE LET new == added.ret[1]
                 old == old_tips[idx + 1]
                 copied == [added.p EXCEPT
                              !.tips[old].apex = added.p.tips[new].apex,
                              !.tips[old].base = added.p.tips[new].base]
             IN  [p |-> Add(asign_tip_attr(Remove(copied, new), old, at_start), old),
                  err |-> ""])

\* lines 606-631; the stroke width is not modelled
scale(p0, factor, about) ==
    Then(p0, LAMBDA p :
    IF get_length(p) = R(0) THEN [p |-> p, err |-> "", ret |-> <<>>]
    ELSE
    Then(IF has_tip(p) \/ has_start_tip(p) THEN pop_tips(p)
         ELSE [p |-> p, err |-> "", ret |-> <<>>], LAMBDA popped :
    IF popped.err # "" THEN [p |-> popped.p, err |-> popped.err, ret |-> <<>>]
    ELSE
    Then(VMobjectScale(popped.p, factor, about), LAMBDA scaled :
    Then(IF has_tip(p) THEN Reattach(scaled, popped.ret, 0, FALSE)
         ELSE [p |-> scaled, err |-> ""], LAMBDA first :
    IF first.err # "" THEN [p |-> first.p, err |-> first.err, ret |-> <<>>]
    ELSE
    Then(IF has_start_tip(p) THEN Reattach(first.p, popped.ret, 1, TRUE)
         ELSE first, LAMBDA second :
        [p |-> second.p, err |-> second.err, ret |-> <<>>])))))

\* the factors an arrow is scaled by
Factors == {RNorm(1, 2), R(2)}

\* lines 597-603: Arrow(start, end): the line with its buff, then add_tip()
InitArrow ==
    /\ \E s \in PathStarts, e \in PathEnds :
         LET line == generate_points(
                        [pc |-> "live", cls |-> "Arrow",
                         start |-> R(s), end |-> R(e), buff |-> R(ArrowBuff),
                         points_start |-> R(s), points_end |-> R(e),
                         submobjects |-> <<>>, tips |-> <<>>,
                         tip |-> 0, start_tip |-> 0, calls |-> <<>>])
         IN  path = add_tip(line, FALSE).p
    /\ tiling = Idle
    /\ graph = Idle
    /\ arc = Idle
    /\ poly = Idle

\* a caller invokes scale(factor) on an arrow
Scale ==
    /\ path.pc = "live"
    /\ path.cls = "Arrow"
    /\ Len(path.calls) < MaxCalls
    /\ \E factor \in Factors :
         path' = Called(path, "scale", FALSE, scale(path, factor, None))
    /\ UNCHANGED <<tiling, graph, arc, poly>>

NextArrow == AddTip \/ PopTips \/ Scale

SpecArrow == InitArrow /\ [][NextArrow]_vars

SpecTip == InitTip /\ [][NextTip]_vars

Live == path.pc = "live"
NCalls == Len(path.calls)
LastCall == path.calls[NCalls]

\* the calls that attached a tip at the given end
Adds(at_start) ==
    {n \in 1..NCalls : /\ path.calls[n].op = "add_tip"
                       /\ path.calls[n].at_start = at_start
                       /\ path.calls[n].err = ""}

\* the tip attached by the latest such call
LatestAdded(at_start) ==
    path.calls[CHOOSE n \in Adds(at_start) :
                 \A m \in Adds(at_start) : m <= n].ret[1]

\* the children that were made as a tip for the given end
Children(at_start) ==
    {n \in 1..Len(path.tips) : Contains(path, n)
                               /\ path.tips[n].at_start = at_start}


(* C2, as stated: after add_tip, for either value of at_start and whatever  *)
(* tips were attached before, has_tip() is true and get_tip() returns the   *)
(* tip this call attached.                                                  *)
C2_AddTipMakesHasTipAndGetTip ==
    (Live /\ NCalls > 0 /\ LastCall.op = "add_tip") =>
        /\ LastCall.err = ""
        /\ has_tip(path)
        /\ get_tip(path) = LastCall.ret[1]

(* C2, amended: add_tip never raises.  After add_tip(at_start=False),       *)
(* has_tip() is true and get_tip() returns the tip this call attached.      *)
(* After add_tip(at_start=True), has_start_tip() is true, the tip this call *)
(* attached is the last of get_tips(), has_tip() is what it was before the  *)
(* call, and get_tip() returns the new tip exactly when no end tip was ever *)
(* attached; otherwise it returns the latest end tip.                       *)
C2_AddTipSetsTheFlagOfItsEnd ==
    (Live /\ NCalls > 0 /\ LastCall.op = "add_tip") =>
        /\ LastCall.err = ""
        /\ ~LastCall.at_start =>
             /\ has_tip(path)
             /\ get_tip(path) = LastCall.ret[1]
        /\ LastCall.at_start =>
             /\ has_start_tip(path)
             /\ get_tips(path)[Len(get_tips(path))] = LastCall.ret[1]
             /\ has_tip(path) <=>
                  \E n \in 1..Len(LastCall.before.attached) :
                     LastCall.before.attached[n] = path.tip
             /\ (get_tip(path) = LastCall.ret[1]) <=> (Adds(FALSE) = {})
             /\ Adds(FALSE) # {} => get_tip(path) = LatestAdded(FALSE)

\* a start tip was attached to a path that already had an end tip
C2_Witness ==
    /\ Live /\ NCalls > 1 /\ LastCall.op = "add_tip" /\ LastCall.at_start
    /\ Adds(FALSE) # {}
    /\ has_tip(path) /\ has_start_tip(path)
    /\ get_tip(path) # LastCall.ret[1]

(* C5: add_tip followed by pop_tips restores the path: pop_tips returns the *)
(* attached tips (end tip first, then start tip), has_tip() and             *)
(* has_start_tip() are false afterwards, the path's own start and end are   *)
(* the tip-aware start and end it had before the pop, and start, end and    *)
(* length equal those before the add_tip.                                   *)
C5_AddThenPopRestoresThePath ==
    (Live /\ NCalls > 1 /\ LastCall.op = "pop_tips"
          /\ path.calls[NCalls - 1].op = "add_tip") =>
        LET added == path.calls[NCalls - 1]
        IN  /\ LastCall.err = ""
            /\ LastCall.ret = LastCall.before.attached
            /\ ~has_tip(path) /\ ~has_start_tip(path)
            /\ path.points_start = LastCall.before.start
            /\ path.points_end = LastCall.before.end
            /\ get_start(path) = added.before.start
            /\ get_end(path) = added.before.end
            /\ get_length(path) = added.before.length

(* C8: get_tip() raises the missing-tip error exactly when no tip was ever  *)
(* attached at either end; otherwise it returns the end tip if one was ever *)
(* attached and else the start tip, also after the tips were popped.        *)
C8_GetTipRaisesOnlyIfNeverTipped ==
    Live =>
        /\ (get_tip(path) = 0) <=> (Adds(FALSE) = {} /\ Adds(TRUE) = {})
        /\ Adds(FALSE) # {} => get_tip(path) = LatestAdded(FALSE)
        /\ (Adds(FALSE) = {} /\ Adds(TRUE) # {}) =>
             get_tip(path) = LatestAdded(TRUE)

\* the tips were popped without an error and get_tip() still returns one
C8_Witness ==
    /\ Live /\ NCalls > 1 /\ LastCall.op = "pop_tips" /\ LastCall.err = ""
    /\ Len(LastCall.ret) > 0
    /\ ~has_tip(path) /\ ~has_start_tip(path)
    /\ get_tip(path) # 0

(* C9: after any sequence of add_tip calls the path owns at most one end    *)
(* tip and at most one start tip among its children.                        *)
C9_AtMostOneTipPerEnd ==
    (Live /\ \A n \in 1..NCalls : path.calls[n].op = "add_tip") =>
        /\ Cardinality(Children(FALSE)) <= 1
        /\ Cardinality(Children(TRUE)) <= 1


-----------------------------------------------------------------------------
(* Further properties of the Tiling.                                        *)

\* the members of range(r.start, r.stop + r.step, r.step) for a positive step
Extended(r) ==
    { n \in (-MaxCoord - 2)..(MaxCoord + 2) :
        /\ r.start <= n
        /\ n < r.stop + r.step
        /\ (n - r.start) % r.step = 0 }

\* the pairs (x, y) a tiling is to have a tile for
Expected == Extended(tiling.x_arg) \X Extended(tiling.y_arg)

\* the tile children of the tiling
TileChildren == { tiling.submobjects[n] : n \in 1..Len(tiling.submobjects) }

(* C11: a built Tiling has exactly one tile for every pair (x, y) of the    *)
(* ranges extended by one step, 9 tiles for range(-1,1,1) on both axes;     *)
(* each tile is a copy distinct from the prototype and from every other     *)
(* tile, is a child of the tiling and is the value of                       *)
(* tile_dictionary[x][y], and the tiling has no other tile children.        *)
C11_OneTilePerPairOfTheExtendedRanges ==
    tiling.pc = "done" =>
        /\ TileKeys = Expected
        /\ Len(tiling.submobjects) = Cardinality(Expected)
        /\ TileChildren = { TileAt(key[1], key[2]) : key \in TileKeys }
        /\ \A t \in TileChildren : t.id # Prototype.id
        /\ \A k1, k2 \in TileKeys :
             TileAt(k1[1], k1[2]).id = TileAt(k2[1], k2[2]).id => k1 = k2
        /\ \A m, n \in 1..Len(tiling.submobjects) :
             tiling.submobjects[m].id = tiling.submobjects[n].id => m = n
        /\ ( /\ tiling.x_arg = [start |-> -1, stop |-> 1, step |-> 1]
             /\ tiling.y_arg = [start |-> -1, stop |-> 1, step |-> 1] )
             => Len(tiling.submobjects) = 9

\* the tiling of range(-1,1,1) by range(-1,1,1) is built and has 9 tiles
C11_Witness ==
    /\ tiling.pc = "done"
    /\ tiling.x_arg = [start |-> -1, stop |-> 1, step |-> 1]
    /\ tiling.y_arg = [start |-> -1, stop |-> 1, step |-> 1]
    /\ Cardinality(TileKeys) = 9
    /\ Len(tiling.submobjects) = 9


-----------------------------------------------------------------------------
(* Line: the points generated from start, end and buff.                     *)

\* the buffs under test, in units of 0.05 (MED_SMALL_BUFF is 5)
Buffs == {0, 1, 2, 3, 5, 10, 12}

\* lines 423-426: Line(start, end, buff=...) before its points are generated
InitLine ==
    /\ \E s \in PathStarts, e \in PathEnds, b \in Buffs :
         path = [pc |-> "new", cls |-> "Line",
                 start |-> R(s), end |-> R(e), buff |-> R(b),
                 points_start |-> R(0), points_end |-> R(0)]
    /\ tiling = Idle
    /\ graph = Idle
    /\ arc = Idle
    /\ poly = Idle

\* VMobject.__init__ calls generate_points
GeneratePoints ==
    /\ path.pc = "new"
    /\ path' = [generate_points(path) EXCEPT !.pc = "live"]
    /\ UNCHANGED <<tiling, graph, arc, poly>>

NextLine == GeneratePoints

SpecLine == InitLine /\ [][NextLine]_vars

\* the distance from start to end the line was asked for
AskedLength == RAbs(RSub(path.end, path.start))

(* C12: buffer trimming is skipped, leaving the path from start to end,     *)
(* whenever 2*buff >= length (equality and a zero-length path included) and *)
(* whenever buff is 0; in every other case the path is its sub-path between *)
(* the proportions buff/length and 1 - buff/length.                         *)
C12_TrimmingSkippedWhenBuffTooLarge ==
    path.pc = "live" =>
        IF path.buff = R(0) \/ ~RLess(RMul(R(2), path.buff), AskedLength)
        THEN /\ path.points_start = path.start
             /\ path.points_end = path.end
        ELSE LET d == RSub(path.end, path.start)
                 a == RDiv(path.buff, AskedLength)
             IN  /\ path.points_start = RAdd(path.start, RMul(d, a))
                 /\ path.points_end = RAdd(path.start, RMul(d, RSub(R(1), a)))


-----------------------------------------------------------------------------
(* Further properties of ArcBetweenPoints.                                  *)

\* the normals of the built path cannot be intersected: the path is straight
\* or collapsed on one point
NoCentre == arc.points = "line" \/ arc.start = arc.end

(* C13: when the two normals cannot be intersected, get_arc_center returns  *)
(* the origin and sets the failure flag, no error propagates, and an        *)
(* ArcBetweenPoints built without a radius records an infinite radius; when *)
(* they can, it returns the intersection, which lies equally far from start *)
(* and from end, and the distance from start to it is recorded; so after    *)
(* construction the flag is true exactly when the radius is infinite.       *)
C13_CentreFailureGivesInfiniteRadius ==
    arc.pc = "done" =>
        /\ arc.err = ""
        /\ arc.failed_to_get_center <=> arc.radius = [kind |-> "inf"]
        /\ (arc.radius_arg = None /\ NoCentre) =>
             /\ arc.center = Origin
             /\ arc.failed_to_get_center
             /\ arc.radius = [kind |-> "inf"]
        /\ (arc.radius_arg = None /\ ~NoCentre) =>
             /\ ~arc.failed_to_get_center
             /\ RDist2(arc.start, arc.center) = RDist2(arc.end, arc.center)
             /\ arc.radius = [kind |-> "distance",
                              sq |-> RDist2(arc.start, arc.center)]
             /\ arc.radius.sq = RNorm(Dist2(arc.start, arc.end), 2)

\* a straight path between two different points was built without a radius:
\* its normals are parallel, the flag is set and the radius is infinite
C13_Witness ==
    /\ arc.pc = "done" /\ arc.radius_arg = None
    /\ arc.start # arc.end
    /\ arc.points = "line"
    /\ arc.center = Origin
    /\ arc.failed_to_get_center
    /\ arc.radius = [kind |-> "inf"]


-----------------------------------------------------------------------------
(* Further properties of the EdgeVertexGraph.                               *)

\* the graph dictionary connects u and v, in either list
Connects(g, u, v) == Declared(g, u, v) > 0 \/ Declared(g, v, u) > 0

(* C14, as stated: for every pair u < v that the graph dictionary connects  *)
(* (v in u's list, u in v's list, or both, with any number of repeated      *)
(* entries) the built graph has exactly one edge shape between u and v,     *)
(* drawn from u to v.                                                       *)
C14_ConnectedPairDrawnExactlyOnce ==
    graph.pc = "done" =>
        \A u, v \in VertexIds :
            (u < v /\ Connects(graph.graph, u, v)) =>
                /\ Drawn(u, v) = 1
                /\ Drawn(v, u) = 0

(* C14, amended: no edge is drawn from a higher to a lower vertex, and for  *)
(* u < v the built graph has one edge shape from u to v for each entry of   *)
(* u's list that names v: exactly one when u's list names v once, whether   *)
(* or not v's list names u; none when only v's list names u; several when   *)
(* u's list repeats v.                                                      *)
C14_LowerListDecidesTheEdges ==
    graph.pc = "done" =>
        \A u, v \in VertexIds :
            u < v =>
                /\ Drawn(v, u) = 0
                /\ Declared(graph.graph, u, v) = 1 => Drawn(u, v) = 1
                /\ Declared(graph.graph, u, v) = 0 => Drawn(u, v) = 0
                /\ Declared(graph.graph, u, v) > 1 => Drawn(u, v) > 1
                /\ Drawn(u, v) + Drawn(v, u) = Declared(graph.graph, u, v)

\* a built graph where only the higher vertex lists a pair, which is not
\* drawn, and where a lower vertex lists another twice, which is drawn twice
C14_Witness ==
    /\ graph.pc = "done"
    /\ \E u, v \in VertexIds :
         /\ u < v
         /\ Declared(graph.graph, v, u) > 0
         /\ Declared(graph.graph, u, v) = 0
         /\ Drawn(u, v) = 0
    /\ \E u, v \in VertexIds :
         /\ u < v
         /\ Declared(graph.graph, u, v) = 2
         /\ Drawn(u, v) = 2


\* how often pair j of rule r of an axis was applied to a tile
TimesApplied(tile, axis, r, j) ==
    Cardinality({ n \in 1..Len(tile.calls) :
                    /\ tile.calls[n][1] = axis
                    /\ tile.calls[n][2] = r
                    /\ tile.calls[n][3] = j })

\* every pair of every rule of the axis was applied once, the pairs of one
\* rule with one magnitude
FullyApplied(tile, axis) ==
    \A r \in 0..(Len(AxisOffset(axis)) - 1) :
        /\ \A j \in 0..((Len(PyGet(AxisOffset(axis), r)) \div 2) - 1) :
              TimesApplied(tile, axis, r, j) = 1
        /\ Cardinality(RuleMags(tile, axis, r)) = 1

(* C15: for every tile coordinate (positive, zero or negative) and every    *)
(* rule list, transform_tile applies every (operation, vector) pair of      *)
(* every rule exactly once, each with the magnitude of its rule, and never  *)
(* fails or skips a pair when the rules hold different numbers of pairs.    *)
C15_EveryPairOfEveryRuleAppliedOnce ==
    tiling.pc # "idle" =>
        /\ tiling.pc # "error"
        /\ \A key \in TileKeys :
              /\ FullyApplied(TileAt(key[1], key[2]), "x")
              /\ FullyApplied(TileAt(key[1], key[2]), "y")


\* the number of integers i + m*k (m >= 0) from lo up to hi
CountForward(i, k, lo, hi) ==
    Cardinality({ n \in lo..hi : n >= i /\ (n - i) % k = 0 })

\* the number of integers -(i + m*k) (m >= 0) from lo up to hi
CountMirrored(i, k, lo, hi) ==
    Cardinality({ n \in lo..hi : -n >= i /\ (-n - i) % k = 0 })

\* the magnitudes of the rules of one axis at coordinate p, where 0 itself is
\* counted (zero = 0) or not (zero = 1)
Magnitudes(tile, axis, p, zero) ==
    LET k == Len(AxisOffset(axis))
    IN  \A i \in 0..(k - 1) :
            IF p >= 0
            THEN HasMag(tile, axis, i, CountForward(i, k, zero, p - 1))
            ELSE HasMag(tile, axis, k - 1 - i, -CountMirrored(i, k, p + 1, -zero))

(* C16, as stated: for p >= 0 and k rules the magnitude of rule i is the    *)
(* number of integers i + m*k (m >= 0) strictly between 0 and p; for p < 0  *)
(* the magnitude of the mirrored rule k-1-i is the negated number of        *)
(* integers -(i + m*k) strictly between p and 0.                            *)
C16_MagnitudeCountsStrictlyBetween ==
    tiling.pc # "idle" =>
        \A key \in TileKeys :
            /\ Magnitudes(TileAt(key[1], key[2]), "x", key[1], 1)
            /\ Magnitudes(TileAt(key[1], key[2]), "y", key[2], 1)

(* C16, amended: for p >= 0 the magnitude of rule i is the number of        *)
(* integers n = i + m*k (m >= 0) with 0 <= n < p; for p < 0 the magnitude   *)
(* of the mirrored rule k-1-i is the negated number of integers             *)
(* n = -(i + m*k) with p < n <= 0.  The value 0 counts for i = 0.           *)
C16_MagnitudeCountsFromZero ==
    tiling.pc # "idle" =>
        \A key \in TileKeys :
            /\ Magnitudes(TileAt(key[1], key[2]), "x", key[1], 0)
            /\ Magnitudes(TileAt(key[1], key[2]), "y", key[2], 0)

\* two rules, tiles at MaxCoord and -MaxCoord: each rule with its count
C16_Witness ==
    /\ tiling.pc = "done"
    /\ Len(tiling.x_offset) = 2
    /\ {<<-MaxCoord, 0>>, <<MaxCoord, 0>>} \subseteq TileKeys
    /\ HasMag(TileAt(MaxCoord, 0), "x", 0, (MaxCoord + 1) \div 2)
    /\ HasMag(TileAt(MaxCoord, 0), "x", 1, MaxCoord \div 2)
    /\ HasMag(TileAt(-MaxCoord, 0), "x", 1, -((MaxCoord + 1) \div 2))
    /\ HasMag(TileAt(-MaxCoord, 0), "x", 0, -(MaxCoord \div 2))


-----------------------------------------------------------------------------
(* Further properties of the tips.                                          *)

\* only add_tip was called, at least once
OnlyAddTip == NCalls > 0 /\ \A n \in 1..NCalls : path.calls[n].op = "add_tip"

\* the path as it was built, before any call
Built == path.calls[1].before

(* C17: after any sequence of add_tip calls on a path of non-zero length,   *)
(* every end that carries an attached tip has the path's own endpoint at    *)
(* that tip's base and the tip's apex where the untipped path ended; on a   *)
(* zero-length path add_tip leaves the path's endpoints untouched.          *)
C17_TippedEndSitsOnTheTipBase ==
    (Live /\ OnlyAddTip) =>
        IF Built.length # R(0)
        THEN /\ has_tip(path) =>
                  /\ path.points_end = path.tips[path.tip].base
                  /\ path.tips[path.tip].apex = Built.end
             /\ has_start_tip(path) =>
                  /\ path.points_start = path.tips[path.start_tip].base
                  /\ path.tips[path.start_tip].apex = Built.start
        ELSE /\ path.points_start = Built.points_start
             /\ path.points_end = Built.points_end


\* the children of the path that are tips made during the last call
FreshChildren ==
    { n \in 1..Len(path.tips) : Contains(path, n) /\ n > Len(LastCall.before.tips) }

(* C18: Arrow.scale on an arrow of non-zero length completes for every      *)
(* combination of attached tips (end only, start only, both, none); each    *)
(* tip attached before is the same object attached at the same end after,   *)
(* the number of tip children is unchanged and no tip made during the call  *)
(* remains a child.  On an arrow of zero length scale changes nothing.      *)
C18_ScaleKeepsTheTipObjects ==
    (Live /\ NCalls > 0 /\ LastCall.op = "scale") =>
        LET before == LastCall.before
        IN  IF before.length # R(0)
            THEN /\ LastCall.err = ""
                 /\ has_tip(path) <=> before.has_tip
                 /\ has_start_tip(path) <=> before.has_start_tip
                 /\ before.has_tip => path.tip = before.tip
                 /\ before.has_start_tip => path.start_tip = before.start_tip
                 /\ Len(path.submobjects) = Len(before.submobjects)
                 /\ FreshChildren = {}
            ELSE /\ LastCall.err = ""
                 /\ path.points_start = before.points_start
                 /\ path.points_end = before.points_end
                 /\ path.submobjects = before.submobjects
                 /\ path.tips = before.tips
                 /\ path.tip = before.tip
                 /\ path.start_tip = before.start_tip


\* the length of a tip: from its apex to its base
TipSize(n) == RAbs(RSub(path.tips[n].apex, path.tips[n].base))

\* min(tip_length, max_tip_length_to_length_ratio * L) for the arrow as it is
FreshTipSize ==
    LET ratio == RMul(RNorm(1, MaxTipRatioInv), get_length(path))
    IN  IF RLess(ratio, R(TipLength)) THEN ratio ELSE R(TipLength)

(* C19: after Arrow.scale on an arrow of non-zero length every attached tip *)
(* has the length of a freshly computed tip for the scaled arrow,           *)
(* min(tip_length, max_tip_length_to_length_ratio * L) with L the           *)
(* start-to-end length after scaling.                                       *)
C19_ScaledArrowHasFreshTipLengths ==
    (Live /\ NCalls > 0 /\ LastCall.op = "scale" /\ LastCall.err = ""
          /\ LastCall.before.length # R(0)) =>
        /\ has_tip(path) => TipSize(path.tip) = FreshTipSize
        /\ has_start_tip(path) => TipSize(path.start_tip) = FreshTipSize


-----------------------------------------------------------------------------
(* Further properties of Polygon.round_corners.                             *)

\* the vertex a piece of the rounded path starts at and the one it ends at
Joined(a, b) == a.to = b.from

(* C20: for a polygon of n vertices and a non-zero radius, round_corners    *)
(* ends with a path of exactly n corner arcs and n connectors alternating,  *)
(* the k-th arc rounding the k-th vertex; every piece starts where the one  *)
(* before it ended and the last connector ends where the first arc starts.  *)
C20_RoundedPathAlternatesArcsAndConnectors ==
    (poly.pc \in {"raised", "done"} /\ poly.radius # 0) =>
        LET n == Len(poly.vertices)
        IN  /\ poly.pc = "done"
            /\ Len(poly.path) = 2 * n
            /\ \A k \in 1..n :
                  /\ poly.path[2 * k - 1].kind = "arc"
                  /\ poly.path[2 * k - 1].from.vertex = k
                  /\ poly.path[2 * k - 1].to.vertex = k
                  /\ poly.path[2 * k].kind = "connector"
            /\ \A m \in 1..(2 * n) : Joined(poly.path[m], Cyc(poly.path, m + 1))


-----------------------------------------------------------------------------
(* Further properties of the EdgeVertexGraph: the configuration a shape is *)
(* built with.                                                              *)

\* kwargs is exactly the dictionaries of layers, a later layer winning over
\* an earlier one key by key
Resolves(kwargs, layers) ==
    /\ DOMAIN kwargs = UNION { DOMAIN layers[n] : n \in 1..Len(layers) }
    /\ \A k \in DOMAIN kwargs :
          \E n \in 1..Len(layers) :
              /\ k \in DOMAIN layers[n]
              /\ kwargs[k] = layers[n][k]
              /\ \A later \in (n + 1)..Len(layers) : k \notin DOMAIN layers[later]

\* the entry names a vertex above u
Forward(u, entry) == \E v \in VertexIds : u < v /\ Names(entry, v)

\* the entries that are drawn, in the order of the loops: those of the items
\* from n on
RECURSIVE DrawnEntries(_, _)
DrawnEntries(g, n) ==
    IF n > Len(g) THEN <<>>
    ELSE SelectSeq(g[n][2].adj, LAMBDA e : Forward(g[n][1].n, e))
             \o DrawnEntries(g, n + 1)

\* the per-edge override of an entry: none for a plain id
OverrideOf(entry) == IF IsInstance(entry, "int") THEN EmptyDict ELSE entry.items[2].d

(* C21: every vertex shape is built with vertex_config overridden key by    *)
(* key by the vertex's own config dictionary, and every edge shape with     *)
(* {angle: 0} overridden by edge_config, overridden by the entry's own      *)
(* override; an edge given as a plain id gets {angle: 0} overridden by      *)
(* edge_config and nothing else.                                            *)
C21_ConfigResolvedByPrecedence ==
    graph.pc = "done" =>
        LET g == graph.graph
            entries == DrawnEntries(g, 1)
        IN  /\ Len(graph.vertices) = Len(g)
            /\ \A n \in 1..Len(g) :
                  Resolves(graph.vertices[n].kwargs,
                           <<graph.vertex_config, g[n][2].cfg>>)
            /\ Len(graph.edges) = Len(entries)
            /\ \A m \in 1..Len(entries) :
                  /\ Resolves(graph.edges[m].kwargs,
                              <<[angle |-> 0], graph.edge_config, OverrideOf(entries[m])>>)
                  /\ IsInstance(entries[m], "int") =>
                        Resolves(graph.edges[m].kwargs,
                                 <<[angle |-> 0], graph.edge_config>>)

\* a built graph whose vertex 0 overrides vertex_config's radius, with an
\* edge_config that sets the angle, one edge given as a plain id, which takes
\* edge_config's angle, and one with its own override, which takes its own
C21_Witness ==
    /\ graph.pc = "done"
    /\ graph.vertex_config.radius = 2
    /\ graph.vertices[1].kwargs = [color |-> 1, radius |-> 3, fill_opacity |-> 1]
    /\ graph.edge_config = [stroke_width |-> 5, angle |-> 1]
    /\ Len(graph.edges) = 2
    /\ DrawnEntries(graph.graph, 1) = <<PyInt(1), PyList(<<PyInt(2), PyDict(Override)>>)>>
    /\ graph.edges[1].kwargs = [stroke_width |-> 5, angle |-> 1]
    /\ graph.edges[2].kwargs = [stroke_width |-> 5, angle |-> 2]

=============================================================================
